---- MODULE Spec2Model ----
(***************************************************************************)
(* StratLab analytics core (backend/compute.py): scalar coercion, table    *)
(* loading and cleaning, parametric VaR/ES, single-factor regression and   *)
(* the pipeline orchestrator.                                              *)
(*                                                                         *)
(* Floating point values are decimal records [k, m, e]: k is "fin", "inf", *)
(* "ninf" or "nan"; a finite value is m * 10^e.  Values computed by the    *)
(* pipeline are fixed-point with e = -4 (m counts units of 10^-4),         *)
(* divisions round towards minus infinity.                                 *)
(***************************************************************************)
EXTENDS Integers, Sequences, FiniteSets, TLC

VARIABLES value, coerced, source, rng, out

vars == <<value, coerced, source, rng, out>>

----------------------------------------------------------------------------
(* Floats *)

Scale == 10 ^ 4

Dec(m, e) == [k |-> "fin", m |-> m, e |-> e]
Fx(m) == Dec(m, 0 - 4)
Inf == [k |-> "inf", m |-> 0, e |-> 0]
NegInf == [k |-> "ninf", m |-> 0, e |-> 0]
NaN == [k |-> "nan", m |-> 0, e |-> 0]
IsFinite(x) == x.k = "fin"
IsNaN(x) == x.k = "nan"

(* Python values handed to parse_to_float: None, a float, or a str (a      *)
(* sequence of one-character strings).                                     *)
PyNone == [t |-> "none", f |-> NaN, s |-> <<>>]
PyFloat(x) == [t |-> "float", f |-> x, s |-> <<>>]
PyStr(chars) == [t |-> "str", f |-> NaN, s |-> chars]

----------------------------------------------------------------------------
(* float(str): optional surrounding blanks, optional sign, then nan, inf   *)
(* or a decimal literal whose digit groups may hold single underscores.    *)

DigitChars == <<"0", "1", "2", "3", "4", "5", "6", "7", "8", "9">>
IsDigit(c) == \E i \in 1..10 : DigitChars[i] = c
DigitVal(c) == (CHOOSE i \in 1..10 : DigitChars[i] = c) - 1

Count(s, c) == Cardinality({i \in 1..Len(s) : s[i] = c})

RECURSIVE Strip(_)
Strip(s) ==
    IF s = <<>> THEN s
    ELSE IF Head(s) = " " THEN Strip(Tail(s))
    ELSE IF s[Len(s)] = " " THEN Strip(SubSeq(s, 1, Len(s) - 1))
    ELSE s

IsDigitPart(q) ==
    /\ q # <<>>
    /\ \A i \in 1..Len(q) :
          \/ IsDigit(q[i])
          \/ /\ q[i] = "_"
             /\ 1 < i /\ i < Len(q)
             /\ IsDigit(q[i - 1]) /\ IsDigit(q[i + 1])

OnlyDigits(q) == SelectSeq(q, IsDigit)

RECURSIVE ToInt(_)
ToInt(ds) ==
    IF ds = <<>> THEN 0
    ELSE 10 * ToInt(SubSeq(ds, 1, Len(ds) - 1)) + DigitVal(ds[Len(ds)])

IndexOf(s, c) == CHOOSE i \in 1..Len(s) : s[i] = c /\ \A j \in 1..(i - 1) : s[j] # c
Before(s, c) == IF Count(s, c) = 0 THEN s ELSE SubSeq(s, 1, IndexOf(s, c) - 1)
After(s, c) == IF Count(s, c) = 0 THEN <<>> ELSE SubSeq(s, IndexOf(s, c) + 1, Len(s))

HasSign(s) == s # <<>> /\ Head(s) \in {"-", "+"}
Unsigned(s) == IF HasSign(s) THEN Tail(s) ELSE s
SignOf(s) == IF s # <<>> /\ Head(s) = "-" THEN 0 - 1 ELSE 1

IsDecimal(u) ==
    LET mant == Before(u, "e")
        ip == Before(mant, ".")
        fp == After(mant, ".")
    IN  /\ Count(u, "e") <= 1
        /\ Count(mant, ".") <= 1
        /\ ip # <<>> \/ fp # <<>>
        /\ ip = <<>> \/ IsDigitPart(ip)
        /\ fp = <<>> \/ IsDigitPart(fp)
        /\ Count(mant, ".") = 1 \/ fp = <<>>
        /\ Count(u, "e") = 1 => IsDigitPart(Unsigned(After(u, "e")))

DecimalValue(sign, u) ==
    LET mant == Before(u, "e")
        ip == OnlyDigits(Before(mant, "."))
        fp == OnlyDigits(After(mant, "."))
        ex == After(u, "e")
        exv == SignOf(ex) * ToInt(OnlyDigits(Unsigned(ex)))
    IN  Dec(sign * ToInt(ip \o fp), exv - Len(fp))

(* float(value) on a str: the float, or NaN-kind "err" for ValueError.     *)
ValueError == [k |-> "err", m |-> 0, e |-> 0]

PyFloatOfStr(s) ==
    LET t == Strip(s)
        u == Unsigned(t)
    IN  IF u = <<"n", "a", "n">> THEN NaN
        ELSE IF u = <<"i", "n", "f">> THEN (IF SignOf(t) = 1 THEN Inf ELSE NegInf)
        ELSE IF IsDecimal(u) THEN DecimalValue(SignOf(t), u)
        ELSE ValueError

(* The fields of value.split('-') when value.count('-') = 2. *)
SplitLens(s, c) ==
    LET p == {i \in 1..Len(s) : s[i] = c}
        p1 == CHOOSE i \in p : \A j \in p : i <= j
        p2 == CHOOSE i \in p : \A j \in p : j <= i
    IN  <<p1 - 1, p2 - p1 - 1, Len(s) - p2>>

LooksLikeDate(s) ==
    /\ Len(s) = 10
    /\ Count(s, "-") = 2
    /\ SplitLens(s, "-") = <<4, 2, 2>>

None == [k |-> "none", m |-> 0, e |-> 0]

(* parse_to_float without the date-string check. *)
parse_to_float_nocheck(v) ==
    IF v.t = "none" THEN None
    ELSE IF v.t = "float" THEN v.f
    ELSE LET r == PyFloatOfStr(v.s) IN IF r.k = "err" THEN None ELSE r

parse_to_float(v) ==
    IF v.t = "none" THEN None
    ELSE IF v.t = "float" THEN v.f
    ELSE IF LooksLikeDate(v.s) THEN None
    ELSE LET r == PyFloatOfStr(v.s) IN IF r.k = "err" THEN None ELSE r

----------------------------------------------------------------------------
(* Table loader: _read_and_clean.                                          *)
(*                                                                         *)
(* A source is a file: readable or not, and its data rows in file order.   *)
(* A raw cell is what the reader finds: a Symbol cell is a name or empty   *)
(* (NA), a Px cell is a number or other text, a Date cell is a calendar    *)
(* date (a day number) or other text.                                      *)

NA == ""
NaT == 0

DateCell(d) == [t |-> "date", v |-> d]
PxCell(p) == [t |-> "num", v |-> p]
TextCell == [t |-> "text", v |-> 0]

(* Series.astype(str): a missing value becomes the string "nan". *)
astype_str(sym) == IF sym = NA THEN "nan" ELSE sym

(* pd.to_numeric(errors="coerce") *)
to_numeric(cell) == IF cell.t = "num" THEN Dec(cell.v, 0) ELSE NaN

(* pd.to_datetime(errors="coerce") *)
to_datetime(cell) == IF cell.t = "date" THEN cell.v ELSE NaT

(* Ordering of the symbol strings (code point order). *)
SymOrder == <<"AAA", "BBB", "SPY", "nan">>
SymRank(sym) == CHOOSE i \in 1..Len(SymOrder) : SymOrder[i] = sym

RowLess(a, b) ==
    \/ SymRank(a.Symbol) < SymRank(b.Symbol)
    \/ a.Symbol = b.Symbol /\ a.Date < b.Date

(* Stable insertion of row r into the sorted sequence q. *)
RECURSIVE InsertRow(_, _)
InsertRow(q, r) ==
    IF q = <<>> THEN <<r>>
    ELSE IF RowLess(r, q[Len(q)]) THEN Append(InsertRow(SubSeq(q, 1, Len(q) - 1), r), q[Len(q)])
    ELSE Append(q, r)

(* The frame left in the order of the file. *)
unsorted(rows) == rows

(* DataFrame.sort_values(["Symbol", "Date"]) *)
RECURSIVE sort_values(_)
sort_values(rows) ==
    IF rows = <<>> THEN <<>>
    ELSE InsertRow(sort_values(SubSeq(rows, 1, Len(rows) - 1)), rows[Len(rows)])

(* One step of Series.pct_change: cur / prev - 1 in floating point. *)
pct_change(prev, cur) ==
    IF prev.m = 0
    THEN (IF cur.m = 0 THEN NaN ELSE IF cur.m > 0 THEN Inf ELSE NegInf)
    ELSE Fx((cur.m * Scale) \div prev.m - Scale)

(* The row before row i within its group, in frame order; 0 if none. *)
PrevInGroup(rows, i) ==
    LET before == {j \in 1..(i - 1) : rows[j].Symbol = rows[i].Symbol}
    IN  IF before = {} THEN 0 ELSE CHOOSE j \in before : \A o \in before : o <= j

(* groupby("Symbol")["Px"].pct_change(): each row against the row before   *)
(* it in its group, NaN for the first row of a group.                      *)
with_returns(rows) ==
    [i \in 1..Len(rows) |->
        [Date |-> rows[i].Date, Symbol |-> rows[i].Symbol, Px |-> rows[i].Px,
         Ret |-> LET j == PrevInGroup(rows, i)
                 IN  IF j = 0 THEN NaN ELSE pct_change(rows[j].Px, rows[i].Px)]]

coerce_types(rows) ==
    [i \in 1..Len(rows) |->
        [Date |-> to_datetime(rows[i].date),
         Symbol |-> astype_str(rows[i].sym),
         Px |-> to_numeric(rows[i].px)]]

(* dropna(subset=["Symbol", "Px", "Date"]): a str is never null. *)
NotNullRow(r) == ~IsNaN(r.Px) /\ r.Date # NaT
HasRet(r) == ~IsNaN(r.Ret)

clean_rows(rows) ==
    SelectSeq(with_returns(sort_values(SelectSeq(coerce_types(rows), NotNullRow))), HasRet)

(* _read_and_clean: the frame, or the exception the reader raises. *)
Raised(exc) == [ok |-> FALSE, exc |-> exc, rows |-> <<>>]
Frame(rows) == [ok |-> TRUE, exc |-> "", rows |-> rows]

(* The three column names the code indexes the frame by. *)
ColDate == <<"D", "a", "t", "e">>
ColSymbol == <<"S", "y", "m", "b", "o", "l">>
ColPx == <<"P", "x">>

(* df.rename(columns={c: c.strip() for c in df.columns}): header maps each *)
(* column of the file to the name it carries there.                        *)
rename(header) == [c \in DOMAIN header |-> Strip(header[c])]
HasColumn(columns, name) == \E c \in DOMAIN columns : columns[c] = name

(* pd.read_csv(p, parse_dates=["Date"]) raises ValueError when the file    *)
(* has no column named exactly Date; pd.read_parquet names no column.      *)
read_file(src) ==
    IF ~src.readable THEN "ParserError"
    ELSE IF src.fmt = "csv" /\ ~HasColumn(src.header, ColDate) THEN "ValueError"
    ELSE ""

(* df["Symbol"], df["Px"], df["Date"] raise KeyError on a missing name. *)
read_and_clean(src) ==
    IF read_file(src) # "" THEN Raised(read_file(src))
    ELSE IF \E name \in {ColSymbol, ColPx, ColDate} : ~HasColumn(rename(src.header), name)
    THEN Raised("KeyError")
    ELSE Frame(clean_rows(src.rows))

----------------------------------------------------------------------------
(* Risk estimator: _var_es and compute_risk.                               *)

RECURSIVE SqrtBetween(_, _, _)
SqrtBetween(n, lo, hi) ==
    IF hi - lo <= 1 THEN lo
    ELSE LET mid == (lo + hi) \div 2
         IN  IF mid * mid <= n THEN SqrtBetween(n, mid, hi) ELSE SqrtBetween(n, lo, mid)

(* floor(sqrt(n)), n < 2^30 *)
ISqrt(n) == SqrtBetween(n, 0, 2 ^ 15)

RECURSIVE SumSeq(_)
SumSeq(q) == IF q = <<>> THEN 0 ELSE Head(q) + SumSeq(Tail(q))

Mantissas(arr) == [i \in 1..Len(arr) |-> arr[i].m]
AllFinite(arr) == \A i \in 1..Len(arr) : IsFinite(arr[i])
Kinds(arr) == {arr[i].k : i \in 1..Len(arr)}

(* ndarray.mean() *)
Mean(arr) ==
    IF AllFinite(arr) THEN Fx(SumSeq(Mantissas(arr)) \div Len(arr))
    ELSE IF "nan" \in Kinds(arr) \/ {"inf", "ninf"} \subseteq Kinds(arr) THEN NaN
    ELSE IF "inf" \in Kinds(arr) THEN Inf
    ELSE NegInf

(* Sum of squared deviations from the mean, in units of 10^-8. *)
SumSqDev(arr) ==
    LET mu == Mean(arr).m
    IN  SumSeq([i \in 1..Len(arr) |-> (arr[i].m - mu) * (arr[i].m - mu)])

(* ndarray.std(ddof=1), len(arr) > 1 *)
Std(arr) ==
    IF AllFinite(arr) THEN Fx(ISqrt(SumSqDev(arr) \div (Len(arr) - 1))) ELSE NaN

(* Python max(0.0, x): the first argument unless the second compares greater. *)
Max0(x) ==
    IF x.k = "fin" THEN (IF x.m > 0 THEN x ELSE Fx(0))
    ELSE IF x.k = "inf" THEN Inf
    ELSE Fx(0)

Neg(x) ==
    IF x.k = "fin" THEN Dec(0 - x.m, x.e)
    ELSE IF x.k = "inf" THEN NegInf
    ELSE IF x.k = "ninf" THEN Inf
    ELSE x

(* The process-wide generator of numpy.random.  One call of                *)
(* np.random.normal(size=100_000) moves it to its next state; the sample   *)
(* it returns has the empirical (1 - level) quantile magnitude z (in       *)
(* thousandths), a value near the exact normal quantile that differs from  *)
(* draw to draw.  EsFactor is exp(-z^2/2) / (sqrt(2 pi) (1 - level)) for   *)
(* that z, in thousandths.                                                 *)
Levels == {95, 99}
ZQuantile == [l \in Levels |-> IF l = 99 THEN <<2314, 2326, 2338>> ELSE <<1637, 1645, 1653>>]
EsFactor == [l \in Levels |-> IF l = 99 THEN <<2743, 2667, 2594>> ELSE <<2089, 2062, 2035>>]
RngStates == 1..Len(ZQuantile[99])
NextRng(g) == (g % Len(ZQuantile[99])) + 1

(* _var_es: <<VaR, ES, generator state afterwards>> *)
var_es(arr, level, g) ==
    IF Len(arr) = 0 THEN <<Fx(0), Fx(0), g>>
    ELSE LET mu == Mean(arr)
             sigma == IF Len(arr) > 1 THEN Std(arr) ELSE Fx(0)
         IN  IF sigma = Fx(0)
             THEN <<Max0(Neg(mu)), Max0(Neg(mu)), g>>
             ELSE LET z == ZQuantile[level][g]
                      f == EsFactor[level][g]
                  IN  IF IsFinite(sigma)
                      THEN <<Max0(Fx((z * sigma.m) \div 1000 - mu.m)),
                             Max0(Fx((f * sigma.m) \div 1000 - mu.m)),
                             NextRng(g)>>
                      ELSE <<Max0(NaN), Max0(NaN), NextRng(g)>>

(* The distinct symbols of a frame, in sorted order (groupby keys, pivot   *)
(* columns).                                                               *)
SymbolsOf(rows) == {rows[i].Symbol : i \in 1..Len(rows)}
SortedSymbols(rows) ==
    LET InFrame(sym) == sym \in SymbolsOf(rows) IN SelectSeq(SymOrder, InFrame)

(* grp["Ret"].map(parse_to_float).dropna().astype(float).values *)
GroupReturns(rows, sym) ==
    LET OfSym(r) == r.Symbol = sym
        grp == SelectSeq(rows, OfSym)
        mapped == [i \in 1..Len(grp) |-> parse_to_float(PyFloat(grp[i].Ret))]
        NotNull(x) == x.k \notin {"none", "nan"}
    IN  SelectSeq(mapped, NotNull)

(* The loop of compute_risk over the first n groups: <<records, generator>> *)
RECURSIVE RiskLoop(_, _, _, _)
RiskLoop(rows, level, g, n) ==
    IF n = 0 THEN <<<<>>, g>>
    ELSE LET before == RiskLoop(rows, level, g, n - 1)
             sym == SortedSymbols(rows)[n]
             ve == var_es(GroupReturns(rows, sym), level, before[2])
         IN  <<Append(before[1], [Symbol |-> sym, VaR |-> ve[1], ES |-> ve[2]]), ve[3]>>

(* compute_risk: pd.DataFrame(records) has the columns of the records, so  *)
(* none at all when there is no record.                                    *)
compute_risk(rows, level, g) ==
    LET loop == RiskLoop(rows, level, g, Len(SortedSymbols(rows)))
    IN  [columns |-> IF loop[1] = <<>> THEN {} ELSE {"Symbol", "VaR", "ES"},
         records |-> loop[1],
         rng |-> loop[2]]

----------------------------------------------------------------------------
(* Factor regression engine: factor_regression.                            *)

(* DataFrame.pivot raises ValueError when an (index, column) pair repeats. *)
HasDuplicates(rows) ==
    \E i, j \in 1..Len(rows) :
        i # j /\ rows[i].Date = rows[j].Date /\ rows[i].Symbol = rows[j].Symbol

DatesOf(rows) == {rows[i].Date : i \in 1..Len(rows)}

(* wide[col].map(parse_to_float), then pd.to_numeric(errors="coerce"): the *)
(* cell of the wide frame at (date, sym), NaN where the frame has no row.  *)
Cell(rows, d, sym) ==
    IF \E i \in 1..Len(rows) : rows[i].Date = d /\ rows[i].Symbol = sym
    THEN LET r == rows[CHOOSE i \in 1..Len(rows) : rows[i].Date = d /\ rows[i].Symbol = sym]
             x == parse_to_float(PyFloat(r.Ret))
         IN  IF x.k = "none" THEN NaN ELSE x
    ELSE NaN

(* The wide frame with no date dropped. *)
dates_unaligned(rows) == DatesOf(rows)

(* dropna(how="any"): the dates left in the wide frame. *)
AlignedDates(rows) ==
    {d \in DatesOf(rows) : \A sym \in SymbolsOf(rows) : ~IsNaN(Cell(rows, d, sym))}

RECURSIVE SortedDates(_)
SortedDates(ds) ==
    IF ds = {} THEN <<>>
    ELSE LET lo == CHOOSE d \in ds : \A o \in ds : d <= o
         IN  <<lo>> \o SortedDates(ds \ {lo})

Column(rows, dates, sym) == [i \in 1..Len(dates) |-> Cell(rows, dates[i], sym)]

(* floor(a / c) carried to n further decimal digits, c > 0: a 10^n / c. *)
RECURSIVE FixDiv(_, _, _)
FixDiv(a, c, n) ==
    IF n = 0 THEN a \div c
    ELSE (a \div c) * (10 ^ n) + FixDiv((a % c) * 10, c, n - 1)

(* floor(b x / Scale) for a fixed-point b, without forming b x. *)
MulFx(b, x) == (b \div Scale) * x + ((b % Scale) * x) \div Scale

(* LinearRegression().fit(X, Y) for one column of Y: the slope of the      *)
(* centred least squares problem; its minimum-norm solution, 0, when the   *)
(* centred regressor is all zero.                                          *)
Slope(X, Y) ==
    LET n == Len(X)
        mx == Mean(X).m
        my == Mean(Y).m
        sxx == SumSeq([i \in 1..n |-> (X[i].m - mx) * (X[i].m - mx)])
        sxy == SumSeq([i \in 1..n |-> (X[i].m - mx) * (Y[i].m - my)])
    IN  IF sxx = 0 THEN Fx(0) ELSE Fx(FixDiv(sxy, sxx, 4))

(* residuals = Y - lr.predict(X); residuals.var(axis=0, ddof=1): a sum of  *)
(* squares divided by n - 1, so 0/0 for a single observation.              *)
ResidVar(X, Y) ==
    LET n == Len(X)
        mx == Mean(X).m
        my == Mean(Y).m
        b == Slope(X, Y).m
        res == [i \in 1..n |-> Fx(Y[i].m - (my + MulFx(b, X[i].m - mx)))]
    IN  IF n = 1 THEN NaN ELSE Dec(SumSqDev(res) \div (n - 1), 0 - 8)

NoRegression == [ok |-> TRUE, exc |-> "", market |-> "", dates |-> {}, betas |-> <<>>, resid |-> <<>>]
RegressionRaised(exc) == [ok |-> FALSE, exc |-> exc, market |-> "", dates |-> {}, betas |-> <<>>, resid |-> <<>>]

(* lr.fit, lr.coef_, residual variance: the two frames returned. *)
fit(rows, dates, market, assets) ==
    [ok |-> TRUE, exc |-> "", market |-> market,
     dates |-> {dates[i] : i \in 1..Len(dates)},
     betas |-> [i \in 1..Len(assets) |->
                  [Symbol |-> assets[i],
                   Beta |-> Slope(Column(rows, dates, market), Column(rows, dates, assets[i]))]],
     resid |-> [i \in 1..Len(assets) |->
                  [Symbol |-> assets[i],
                   ResidualVar |-> ResidVar(Column(rows, dates, market),
                                            Column(rows, dates, assets[i]))]]]

(* regress without the check for an empty aligned frame: fit on no sample *)
(* raises ValueError.                                                      *)
regress_no_empty_check(rows, cols, dates) ==
    LET market == IF \E i \in 1..Len(cols) : cols[i] = "SPY" THEN "SPY"
                  ELSE IF cols # <<>> THEN cols[1] ELSE "SPY"
        NotMarket(sym) == sym # market
    IN  IF (\A i \in 1..Len(cols) : cols[i] # market) \/ Len(cols) < 2 THEN NoRegression
        ELSE IF dates = <<>> THEN RegressionRaised("ValueError")
        ELSE IF \E i \in 1..Len(cols) : ~AllFinite(Column(rows, dates, cols[i]))
        THEN RegressionRaised("ValueError")
        ELSE fit(rows, dates, market, SelectSeq(cols, NotMarket))

(* factor_regression after the pivot: cols are the columns of the wide     *)
(* frame, dates its index after dropna.  sklearn's input validation raises *)
(* ValueError on an infinite value.                                        *)
regress(rows, cols, dates) ==
    LET market == IF \E i \in 1..Len(cols) : cols[i] = "SPY" THEN "SPY"
                  ELSE IF cols # <<>> THEN cols[1] ELSE "SPY"
        NotMarket(sym) == sym # market
    IN  IF (\A i \in 1..Len(cols) : cols[i] # market) \/ Len(cols) < 2 THEN NoRegression
        ELSE IF dates = <<>> THEN NoRegression
        ELSE IF \E i \in 1..Len(cols) : ~AllFinite(Column(rows, dates, cols[i]))
        THEN RegressionRaised("ValueError")
        ELSE fit(rows, dates, market, SelectSeq(cols, NotMarket))

factor_regression(rows) ==
    IF HasDuplicates(rows) THEN RegressionRaised("ValueError")
    ELSE regress(rows, SortedSymbols(rows), SortedDates(AlignedDates(rows)))

----------------------------------------------------------------------------
(* Pipeline orchestrator: run_factor_model.                                *)

(* A merge that pairs every left row with every right row. *)
merge_cross(left, right) ==
    LET n == Len(right)
    IN  [k \in 1..(Len(left) * n) |-> left[((k - 1) \div n) + 1] @@ right[((k - 1) % n) + 1]]

(* left.merge(right, on="Symbol"): one row per pair of rows with equal key *)
RECURSIVE Merge(_, _)
Merge(left, right) ==
    IF left = <<>> THEN <<>>
    ELSE LET l == Head(left)
             Match(r) == r.Symbol = l.Symbol
             hits == SelectSeq(right, Match)
         IN  [i \in 1..Len(hits) |-> l @@ hits[i]] \o Merge(Tail(left), right)

RECURSIVE InsertBySymbol(_, _)
InsertBySymbol(q, r) ==
    IF q = <<>> THEN <<r>>
    ELSE IF SymRank(r.Symbol) < SymRank(q[Len(q)].Symbol)
    THEN Append(InsertBySymbol(SubSeq(q, 1, Len(q) - 1), r), q[Len(q)])
    ELSE Append(q, r)

RECURSIVE SortBySymbol(_)
SortBySymbol(rows) ==
    IF rows = <<>> THEN <<>>
    ELSE InsertBySymbol(SortBySymbol(SubSeq(rows, 1, Len(rows) - 1)), rows[Len(rows)])

NoChart == [x |-> <<>>, y |-> <<>>]

(* The dict of the except branch. *)
ErrorResult(exc) ==
    [raised |-> FALSE, error |-> exc, summary |-> <<>>, var_chart |-> NoChart, beta_chart |-> NoChart]

(* The dict of the try branch; error |-> "" stands for no "error" key. *)
Packaged(summary) ==
    [raised |-> FALSE, error |-> "", summary |-> summary,
     var_chart |-> [x |-> [i \in 1..Len(summary) |-> summary[i].Symbol],
                    y |-> [i \in 1..Len(summary) |-> summary[i].VaR]],
     beta_chart |-> [x |-> [i \in 1..Len(summary) |-> summary[i].Symbol],
                     y |-> [i \in 1..Len(summary) |-> summary[i].Beta]]]

(* An exception leaving run_factor_model. *)
Escaped(exc) ==
    [raised |-> TRUE, error |-> exc, summary |-> <<>>, var_chart |-> NoChart, beta_chart |-> NoChart]

(* The body of the try block: the stages completed, what each produced,    *)
(* the exception that ended it ("" for none) and the summary frame.        *)
NoRisk == [columns |-> {}, records |-> <<>>]

(* merge, sort_values("Symbol"), packaging *)
merge_stage(df, risk, regr) ==
    IF ~regr.ok
    THEN [stages |-> <<"load", "risk">>, exc |-> regr.exc, cleaned |-> df,
          risk |-> risk, regr |-> NoRegression, summary |-> <<>>]
    ELSE IF "Symbol" \notin risk.columns
    THEN [stages |-> <<"load", "risk", "regression">>, exc |-> "KeyError",
          cleaned |-> df, risk |-> risk, regr |-> regr, summary |-> <<>>]
    ELSE [stages |-> <<"load", "risk", "regression", "merge", "package">>, exc |-> "",
          cleaned |-> df, risk |-> risk, regr |-> regr,
          summary |-> SortBySymbol(Merge(Merge(regr.betas, risk.records), regr.resid))]

(* compute_risk(df), factor_regression(df) *)
compute_stages(load, g) ==
    IF ~load.ok
    THEN [stages |-> <<>>, exc |-> load.exc, cleaned |-> <<>>,
          risk |-> NoRisk @@ [rng |-> g], regr |-> NoRegression, summary |-> <<>>]
    ELSE merge_stage(load.rows, compute_risk(load.rows, 99, g), factor_regression(load.rows))

try_block(src, g) == compute_stages(read_and_clean(src), g)

(* except clause that handles ValueError alone. *)
handle_value_error_only(t) ==
    IF t.exc = "" THEN Packaged(t.summary)
    ELSE IF t.exc = "ValueError" THEN ErrorResult(t.exc)
    ELSE Escaped(t.exc)

(* except Exception as e *)
handle(t) ==
    IF t.exc = "" THEN Packaged(t.summary) ELSE ErrorResult(t.exc)

run_factor_model(src, g) == handle(try_block(src, g))

----------------------------------------------------------------------------
(* The sources of the model.  A table gives each symbol a coverage of the  *)
(* dates 1..MaxDate: absent, every date ("full"), the first two ("head"),  *)
(* the last two ("tail") or the first alone ("one"); its rows are in date  *)
(* order.  Up to MaxExtra further rows follow: for SPY, on the first or    *)
(* the last date or with an unparseable date, with price 0 or an           *)
(* unparseable price.                                                      *)

MaxDate == 3
MaxExtra == 1

Symbols == {"AAA", "BBB", "SPY"}

(* Price paths, each repeating with period 3: AAA is flat, SPY rises 100,  *)
(* 101, 102, BBB moves 100, 102, 101; the rows whose symbol cell is empty  *)
(* are priced 100, 101, 100.                                               *)
PxOf(sym, d) ==
    IF sym = "AAA" THEN 100
    ELSE IF sym = "SPY" THEN 100 + ((d - 1) % 3)
    ELSE IF sym = "BBB" THEN <<100, 102, 101>>[((d - 1) % 3) + 1]
    ELSE <<100, 101, 100>>[((d - 1) % 3) + 1]

FileOrder == <<"AAA", "BBB", "SPY", NA>>

CoverageDates(c) ==
    IF c = "full" THEN 1..MaxDate
    ELSE IF c = "head" THEN 1..2
    ELSE IF c = "tail" THEN (MaxDate - 1)..MaxDate
    ELSE IF c = "one" THEN {1}
    ELSE {}

Coverages ==
    {cov \in [Symbols \cup {NA} -> {"absent", "full", "head", "tail", "one"}] :
        /\ cov["AAA"] \in {"absent", "full"}
        /\ cov["BBB"] \in {"absent", "full", "tail"}
        /\ cov["SPY"] \in {"absent", "full", "head", "one"}
        /\ cov[NA] \in {"absent", "full"}}

RECURSIVE BaseRows(_, _)
BaseRows(cov, n) ==
    IF n = 0 THEN <<>>
    ELSE LET Covered(sym) == n \in CoverageDates(cov[sym])
             syms == SelectSeq(FileOrder, Covered)
         IN  BaseRows(cov, n - 1) \o
             [i \in 1..Len(syms) |->
                 [date |-> DateCell(n), sym |-> syms[i], px |-> PxCell(PxOf(syms[i], n))]]

ExtraRows ==
    [date : {DateCell(1), DateCell(MaxDate), TextCell},
     sym : {"SPY"},
     px : {PxCell(0), TextCell}]

RECURSIVE SeqsUpTo(_, _)
SeqsUpTo(S, n) ==
    IF n = 0 THEN {<<>>}
    ELSE LET shorter == SeqsUpTo(S, n - 1)
         IN  shorter \cup {Append(q, x) : q \in shorter, x \in S}

(* Header lines: the names under which the file carries the date, symbol  *)
(* and price columns, in the code's spelling or differing from it in       *)
(* surrounding blanks or in letter case.                                   *)
CanonicalHeader == [Date |-> ColDate, Symbol |-> ColSymbol, Px |-> ColPx]

Headers ==
    {CanonicalHeader,
     [Date |-> ColDate, Symbol |-> <<" ">> \o ColSymbol \o <<" ">>, Px |-> ColPx \o <<" ">>],
     [Date |-> <<" ">> \o ColDate, Symbol |-> ColSymbol, Px |-> ColPx],
     [Date |-> ColDate, Symbol |-> <<"S", "Y", "M", "B", "O", "L">>, Px |-> ColPx],
     [Date |-> <<"d", "a", "t", "e">>, Symbol |-> <<"s", "y", "m", "b", "o", "l">>,
      Px |-> <<"p", "x">>]}

Formats == {"csv", "parquet"}
Orders == {"asc", "desc"}

Reverse(q) == [i \in 1..Len(q) |-> q[Len(q) + 1 - i]]
Ordered(rows, order) == IF order = "desc" THEN Reverse(rows) ELSE rows

Unreadable == [readable |-> FALSE, fmt |-> "csv", header |-> CanonicalHeader, rows |-> <<>>]

(* A delimited file with the code's header and the base rows followed by   *)
(* the further rows; or a file of either format, any of the headers and    *)
(* the base rows in ascending or descending date order.                    *)
Sources ==
    {Unreadable}
    \cup {[readable |-> TRUE, fmt |-> "csv", header |-> CanonicalHeader,
           rows |-> BaseRows(cov, MaxDate) \o extra] :
              cov \in Coverages, extra \in SeqsUpTo(ExtraRows, MaxExtra)}
    \cup {[readable |-> TRUE, fmt |-> f, header |-> h,
           rows |-> Ordered(BaseRows(cov, MaxDate), o)] :
              f \in Formats, h \in Headers, o \in Orders, cov \in Coverages}

NoSource == Unreadable
NoOut == [op |-> "none"]

Init ==
    /\ source \in Sources
    /\ rng \in RngStates
    /\ out = NoOut
    /\ value = PyNone
    /\ coerced = None

(* backend.tasks.factor_analysis -> run_factor_model(file_path, priors):   *)
(* t is the outcome of its try block, handle(t) what it returns.           *)
RunFactorModel ==
    \E t \in {try_block(source, rng)} :
        /\ out' = [op |-> "run_factor_model", stages |-> t.stages, cleaned |-> t.cleaned,
                   risk |-> t.risk.records, regr |-> t.regr,
                   ret |-> handle(t)]
        /\ rng' = t.risk.rng
        /\ UNCHANGED <<source, value, coerced>>

(* backend.tasks.test_data_loading -> _read_and_clean(file_path) *)
ReadAndClean ==
    /\ out' = [op |-> "read_and_clean", ret |-> read_and_clean(source)]
    /\ UNCHANGED <<source, rng, value, coerced>>

(* compute_risk(df, level) on the cleaned frame of the source *)
ComputeRisk(level) ==
    \E df \in {read_and_clean(source)} :
        /\ df.ok
        /\ \E r \in {compute_risk(df.rows, level, rng)} :
              /\ out' = [op |-> "compute_risk", level |-> level, df |-> df.rows,
                         ret |-> [columns |-> r.columns, records |-> r.records]]
              /\ rng' = r.rng
        /\ UNCHANGED <<source, value, coerced>>

(* factor_regression(df) on the cleaned frame of the source *)
FactorRegression ==
    \E df \in {read_and_clean(source)} :
        /\ df.ok
        /\ out' = [op |-> "factor_regression", df |-> df.rows, ret |-> factor_regression(df.rows)]
        /\ UNCHANGED <<source, rng, value, coerced>>

Next ==
    \/ RunFactorModel
    \/ ReadAndClean
    \/ \E level \in Levels : ComputeRisk(level)
    \/ FactorRegression

Spec == Init /\ [][Next]_vars

----------------------------------------------------------------------------
(* Scalar coercion on its own: the values a caller may hand over. *)

Pending == [k |-> "pending", m |-> 0, e |-> 0]

Field4 == { <<"2", "0", "2", "5">>, <<" ", " ", " ", " ">>, <<"1", "2", ".", "5">> }
Field2 == { <<"0", "1">>, <<"1", "e">>, <<"0", "5">> }
Seps == {"-", "/", ".", "_"}

ShapedStrings ==
    { f1 \o <<s1>> \o f2 \o <<s2>> \o f3 :
        f1 \in Field4, s1 \in Seps, f2 \in Field2, s2 \in Seps, f3 \in Field2 }

OtherStrings ==
    { <<>>, <<"1", ".", "5">>, <<"a", "b", "c">>, <<"1", "_", "0">>,
      <<"1", "_", "_", "0">>, <<"_", "1">>, <<"-", "1", "e", "-", "0", "5">>,
      <<"n", "a", "n">>, <<"i", "n", "f">>, <<"-", "i", "n", "f">>,
      <<"2", "0", "2", "5", "-", "1", "-", "1">>, <<" ", "1", "2", " ">>,
      <<"1", "e">>, <<".">>, <<"1", ".">>, <<".", "5">>, <<"1", ".", "5", ".", "2">>,
      <<"2", "0", "2", "5", "0", "1", "0", "1">>, <<"+", "2">>, <<"1", " ", "2">> }

Values ==
    {PyNone} \cup {PyFloat(Fx(150000)), PyFloat(Fx(0 - 990)), PyFloat(NaN), PyFloat(Inf)}
             \cup {PyStr(s) : s \in ShapedStrings \cup OtherStrings}

InitCoerce ==
    /\ value \in Values
    /\ coerced = Pending
    /\ source = NoSource
    /\ rng = 1
    /\ out = NoOut

ParseToFloat ==
    /\ coerced = Pending
    /\ coerced' = parse_to_float(value)
    /\ UNCHANGED <<value, source, rng, out>>

NextCoerce == ParseToFloat

SpecCoerce == InitCoerce /\ [][NextCoerce]_vars

(* A string of exactly 10 characters in which character c occurs exactly   *)
(* twice, at positions 5 and 8: three fields of lengths 4/2/2.             *)
DatePattern(s, c) ==
    /\ Len(s) = 10
    /\ \A i \in 1..10 : (s[i] = c) <=> (i \in {5, 8})

(* C8 (as stated): parse_to_float returns None for every string matching   *)
(* the calendar-date pattern, whatever the separator character.            *)
C8_AnySeparatorIsNone ==
    (coerced # Pending /\ value.t = "str" /\ \E c \in Seps : DatePattern(value.s, c))
        => coerced = None

(* C8 (amended): parse_to_float returns None for every 10-character string *)
(* that two '-' characters split into fields of lengths 4/2/2, also when   *)
(* float() would parse the string.                                         *)
C8_HyphenDateIsNone ==
    (coerced # Pending /\ value.t = "str" /\ DatePattern(value.s, "-"))
        => coerced = None

C8_Witness ==
    /\ coerced = None
    /\ value.t = "str"
    /\ DatePattern(value.s, "-")
    /\ PyFloatOfStr(value.s).k = "fin"

----------------------------------------------------------------------------
(* Properties of the pipeline and its stages, checked under Spec. *)

Ran == out.op = "run_factor_model"
AllStages == <<"load", "risk", "regression", "merge", "package">>
Range(q) == {q[i] : i \in 1..Len(q)}
SummarySymbols == [i \in 1..Len(out.ret.summary) |-> out.ret.summary[i].Symbol]
RecordSymbols(records) == {records[i].Symbol : i \in 1..Len(records)}

(* C1: run_factor_model never raises; when a stage fails the result has    *)
(* error set and summary, var_chart and beta_chart empty; a result without *)
(* error is returned only when every stage completed.                      *)
C1_NeverRaises ==
    Ran =>
        /\ ~out.ret.raised
        /\ out.stages # AllStages =>
              /\ out.ret.error # ""
              /\ out.ret.summary = <<>>
              /\ out.ret.var_chart = NoChart
              /\ out.ret.beta_chart = NoChart
        /\ out.ret.error = "" => out.stages = AllStages

C1_Witness ==
    /\ Ran
    /\ out.stages = <<"load", "risk", "regression">>
    /\ ~out.ret.raised
    /\ out.ret.error = "KeyError"
    /\ out.ret.summary = <<>>

(* C2: when a readable source with the header Date, Symbol, Px has no row  *)
(* surviving cleaning, the result has an empty summary and no error.       *)
C2_EmptyInputNoError ==
    (Ran /\ source.readable /\ source.header = CanonicalHeader /\ out.cleaned = <<>>) =>
        (out.ret.error = "" /\ out.ret.summary = <<>>)

(* C3: in every result without error, every VaR, ES, Beta and ResidualVar  *)
(* of the summary and every y of var_chart and beta_chart is finite.       *)
C3_OutputFinite ==
    (Ran /\ out.ret.error = "") =>
        /\ \A i \in 1..Len(out.ret.summary) :
              /\ IsFinite(out.ret.summary[i].VaR)
              /\ IsFinite(out.ret.summary[i].ES)
              /\ IsFinite(out.ret.summary[i].Beta)
              /\ IsFinite(out.ret.summary[i].ResidualVar)
        /\ \A i \in 1..Len(out.ret.var_chart.y) : IsFinite(out.ret.var_chart.y[i])
        /\ \A i \in 1..Len(out.ret.beta_chart.y) : IsFinite(out.ret.beta_chart.y[i])

(* A raw row whose symbol, price and date all resolve. *)
Resolves(row) == row.sym # NA /\ row.px.t = "num" /\ row.date.t = "date"

(* C4: _read_and_clean discards every row whose symbol, price or date does *)
(* not resolve: the cleaned table of a readable source with the header     *)
(* Date, Symbol, Px is the cleaned table of its resolving rows, and the    *)
(* load does not fail.                                                     *)
C4_UnresolvedRowsDiscarded ==
    (out.op = "read_and_clean" /\ source.readable /\ source.header = CanonicalHeader) =>
        /\ out.ret.ok
        /\ out.ret.rows = clean_rows(SelectSeq(source.rows, Resolves))

(* C5: every row of the cleaned table has a finite return. *)
C5_ReturnsFinite ==
    (out.op = "read_and_clean" /\ out.ret.ok) =>
        \A i \in 1..Len(out.ret.rows) : IsFinite(out.ret.rows[i].Ret)

(* C6: the summary holds exactly the symbols that have both a risk record  *)
(* and a regression record, each once; the market symbol used as regressor *)
(* is in none of summary, var_chart and beta_chart.                        *)
C6_SummaryIsInnerJoin ==
    Ran =>
        /\ Range(SummarySymbols) =
              RecordSymbols(out.risk) \cap RecordSymbols(out.regr.betas)
                                      \cap RecordSymbols(out.regr.resid)
        /\ Len(SummarySymbols) = Cardinality(Range(SummarySymbols))
        /\ out.regr.market \notin Range(SummarySymbols)
        /\ out.ret.var_chart.x = SummarySymbols
        /\ out.ret.beta_chart.x = SummarySymbols

C6_Witness ==
    /\ Ran
    /\ out.ret.error = ""
    /\ out.ret.summary # <<>>
    /\ out.regr.market \in RecordSymbols(out.risk)
    /\ out.regr.market \notin Range(out.ret.var_chart.x)

(* C7: two invocations of run_factor_model, or of compute_risk at the same *)
(* level, on the same source return identical results, and an invocation   *)
(* leaves the process-wide generator state as it found it.                 *)
C7_Deterministic ==
    [][ (/\ out.op \in {"run_factor_model", "compute_risk"}
         /\ out'.op = out.op
         /\ out.op = "compute_risk" => out'.level = out.level)
        => (out'.ret = out.ret /\ rng' = rng) ]_vars

(* The dates on which every symbol of the frame has a row. *)
FullyAligned(df) ==
    {d \in DatesOf(df) :
        \A sym \in SymbolsOf(df) : \E i \in 1..Len(df) : df[i].Date = d /\ df[i].Symbol = sym}

C10_PositiveRisk ==
    (/\ out.op = "compute_risk"
     /\ Cardinality(SymbolsOf(out.df)) = 1
     /\ Len(out.df) >= 2
     /\ \A i \in 1..Len(out.df) : IsFinite(out.df[i].Ret)
     /\ \E i, j \in 1..Len(out.df) : out.df[i].Ret # out.df[j].Ret)
        => /\ Len(out.ret.records) = 1
           /\ out.ret.records[1].VaR.m > 0
           /\ out.ret.records[1].ES.m > 0

(* Letter case folded and surrounding blanks removed. *)
LowerOf(c) ==
    CASE c = "D" -> "d" [] c = "S" -> "s" [] c = "Y" -> "y" [] c = "M" -> "m"
      [] c = "B" -> "b" [] c = "O" -> "o" [] c = "L" -> "l" [] c = "P" -> "p"
      [] OTHER -> c
Folded(name) == [i \in 1..Len(Strip(name)) |-> LowerOf(Strip(name)[i])]
MatchesRequired(header) ==
    \A c \in DOMAIN header : Folded(header[c]) = Folded(CanonicalHeader[c])

(* C11: _read_and_clean on a readable source whose column names differ     *)
(* from Date, Symbol, Px only in letter case or surrounding blanks returns *)
(* the cleaned table of the same source under the header Date, Symbol, Px, *)
(* and does not fail.                                                      *)
C11_HeadersInsensitive ==
    (out.op = "read_and_clean" /\ source.readable /\ MatchesRequired(source.header)) =>
        out.ret = read_and_clean([source EXCEPT !.header = CanonicalHeader])

(* The valid observations of a symbol in the source: the rows carrying it  *)
(* whose price and date resolve.                                           *)
ValidObs(sym) ==
    {i \in 1..Len(source.rows) : Resolves(source.rows[i]) /\ source.rows[i].sym = sym}
DistinctDatesNonZero(sym) ==
    /\ \A i, j \in ValidObs(sym) :
          i # j => source.rows[i].date.v # source.rows[j].date.v
    /\ \A i \in ValidObs(sym) : source.rows[i].px.v # 0
ObsDates(sym) == {source.rows[i].date.v : i \in ValidObs(sym)}
PriceOn(sym, d) ==
    source.rows[CHOOSE i \in ValidObs(sym) : source.rows[i].date.v = d].px.v

(* The rows the symbol should have: one per observation after the first,   *)
(* in date order, with (price[t] - price[t-1]) / price[t-1].               *)
ExpectedRows(sym) ==
    LET ds == SortedDates(ObsDates(sym))
    IN  [k \in 1..(Len(ds) - 1) |->
            [Date |-> ds[k + 1], Symbol |-> sym, Px |-> Dec(PriceOn(sym, ds[k + 1]), 0),
             Ret |-> Fx(((PriceOn(sym, ds[k + 1]) - PriceOn(sym, ds[k])) * Scale)
                            \div PriceOn(sym, ds[k]))]]
RowsOf(rows, sym) ==
    LET IsSym(r) == r.Symbol = sym
    IN  SelectSeq(rows, IsSym)

(* C12: for every symbol whose valid observations are on distinct dates    *)
(* with non-zero prices, in whatever order the rows come, the cleaned      *)
(* table holds one row per observation after the first, in ascending date  *)
(* order, with the return against the preceding observation of the symbol; *)
(* a symbol with one observation has no row.                               *)
C12_ReturnsAgainstPrevious ==
    (out.op = "read_and_clean" /\ out.ret.ok) =>
        \A sym \in Symbols :
            DistinctDatesNonZero(sym) => RowsOf(out.ret.rows, sym) = ExpectedRows(sym)

C12_Witness ==
    /\ out.op = "read_and_clean"
    /\ out.ret.ok
    /\ \E i, j \in 1..Len(source.rows) :
          /\ i < j
          /\ source.rows[i].sym = source.rows[j].sym
          /\ source.rows[i].date.v > source.rows[j].date.v
    /\ \E sym \in Symbols :
          /\ DistinctDatesNonZero(sym)
          /\ Cardinality(ValidObs(sym)) >= 3
          /\ Len(RowsOf(out.ret.rows, sym)) = Cardinality(ValidObs(sym)) - 1
          /\ \E k \in 1..Len(out.ret.rows) : out.ret.rows[k].Ret.m < 0
    /\ \E sym \in Symbols :
          /\ Cardinality(ValidObs(sym)) = 1
          /\ RowsOf(out.ret.rows, sym) = <<>>

(* The dates on which every symbol of the frame has a valid return. *)
ValidForAll(df) ==
    {d \in DatesOf(df) :
        \A sym \in SymbolsOf(df) :
            \E i \in 1..Len(df) :
                df[i].Date = d /\ df[i].Symbol = sym /\ ~IsNaN(df[i].Ret)}

(* C13: factor_regression on a cleaned table of two or more symbols, with  *)
(* no (date, symbol) pair repeated and every return finite, regresses      *)
(* every symbol other than the market on exactly the dates on which every  *)
(* symbol of the table has a valid return; a date that any one symbol      *)
(* lacks enters the regression of none.                                    *)
C13_StrictAlignment ==
    (/\ out.op = "factor_regression"
     /\ ~HasDuplicates(out.df)
     /\ Cardinality(SymbolsOf(out.df)) >= 2
     /\ \A i \in 1..Len(out.df) : IsFinite(out.df[i].Ret))
        => /\ out.ret.ok
           /\ out.ret.dates = ValidForAll(out.df)
           /\ ValidForAll(out.df) # {} =>
                 /\ RecordSymbols(out.ret.betas) = SymbolsOf(out.df) \ {out.ret.market}
                 /\ RecordSymbols(out.ret.resid) = SymbolsOf(out.df) \ {out.ret.market}

C13_Witness ==
    /\ out.op = "factor_regression"
    /\ out.ret.ok
    /\ Cardinality(SymbolsOf(out.df)) >= 3
    /\ Len(out.ret.betas) >= 2
    /\ out.ret.dates # {}
    /\ \E d \in DatesOf(out.df) : d \notin out.ret.dates

====
